---- MODULE Spec2Model ----
(***************************************************************************)
(* VisionFFE front end: the ExtractorApp component.                        *)
(*                                                                         *)
(* The model follows frontend/ExtractorApp.tsx: the React state of the     *)
(* component, the three asynchronous handlers (loadProjectData,            *)
(* runExtractionProcess, handleSendToApi) cut at their await points, and   *)
(* the synchronous handlers (handleFileUpload, handleItemSelect,           *)
(* resetState).  JavaScript runs each stretch of code between two awaits   *)
(* without interruption, so every such stretch is one action.              *)
(*                                                                         *)
(* JavaScript strings that the code compares or concatenates are modelled  *)
(* as sequences of one-character strings.                                  *)
(***************************************************************************)
EXTENDS Integers, Sequences, FiniteSets, TLC

VARIABLES
    uploadedFiles,          \* useState<File[]>: the number of files held
    uploadedImagePreviews,  \* useState<string[]>: each entry "blob" or "http"
    extractedItems,         \* useState<ExtractedItem[]>
    isLoading,              \* useState<boolean>
    loadingMessage,         \* useState<string>
    error,                  \* useState<string | null>
    selectedItemIds,        \* useState<Set<string>>
    isSending,              \* useState<boolean>
    apiFeedback,            \* useState<{type, message} | null>
    now,                    \* Date.now()
    build,                  \* how line 264 of ExtractorApp.tsx evaluates
    rpc,                    \* runExtractionProcess: where the call is suspended
    itemNames,              \* runExtractionProcess: local itemNames
    runReply,               \* runExtractionProcess: what the awaited request settled with
    idx,                    \* runExtractionProcess: loop variable i (0-based)
    formData,               \* runExtractionProcess: item_name entries appended to formData
    warned,                 \* console.warn output of the latest run
    lpc,                    \* loadProjectData: where the call is suspended
    loadPending,            \* loadProjectData: project.extracted_items being fetched
    loadBuilt,              \* loadProjectData: items built by the map callback
    spc,                    \* handleSendToApi: where the call is suspended
    sendSelected,           \* handleSendToApi: selectedItemIds captured by the closure
    sendQueries,            \* handleSendToApi: the queries sent, in order
    sendReply,              \* handleSendToApi: what the search request settled with
    accessToken,            \* AuthService.accessToken
    refreshToken,           \* AuthService.refreshToken
    localStorage,           \* window.localStorage: access_token, refresh_token, user_data
    user,                   \* AuthProvider: useState<UserResponse | null>
    authLoading,            \* AuthProvider: useState isLoading
    isAuthenticated,        \* AuthProvider: the constant computed by its latest render
    view,                   \* AppContent: useState 'home' | 'register' | 'login'
    selectedProject,        \* AppContent: useState<Project | null>
    apc,                    \* AuthProvider: where its running handler is suspended
    op,                     \* AuthProvider: the handler that is running
    meBearer,               \* getCurrentUser: the token its request in flight bears
    meResult,               \* getCurrentUser: what the latest call settled with
    lastLogout,             \* AuthService.logout: how its latest request settled
    issued,                 \* the number of token pairs the server has issued
    calls,                  \* authenticatedFetch: the calls of the application pages
    tab2,                   \* a second browser tab: its AuthService and its logout
    recycle                 \* whether the server's pair numbers start over after MaxIssued

appVars  == <<uploadedFiles, uploadedImagePreviews, extractedItems, isLoading,
              loadingMessage, error, selectedItemIds, isSending, apiFeedback>>
runVars  == <<rpc, itemNames, runReply, idx, formData, warned>>
loadVars == <<lpc, loadPending, loadBuilt>>
sendVars == <<spc, sendSelected, sendQueries, sendReply>>
authVars == <<accessToken, refreshToken, localStorage, user, authLoading, isAuthenticated,
              view, selectedProject, apc, op, meBearer, meResult, lastLogout, issued, calls>>
otherVars == <<tab2, recycle>>
vars     == <<appVars, runVars, loadVars, sendVars, now, build, authVars, otherVars>>

-----------------------------------------------------------------------------
(* Bounds of the model *)

\* longest list of names an identify response carries
MaxItems == 2
\* most items a loaded project carries in extracted_items
MaxLoaded == 2
\* most files the user uploads
MaxFiles == 1
\* most photo URLs a loaded project carries in photo_urls
MaxPhotos == 1
\* last value of the millisecond clock
MaxTime == 1

-----------------------------------------------------------------------------
(* Values *)

Null == "null"

\* Item names the vision model may return: "c", and "C " with a trailing blank.
Names == {<<"c">>, <<"C", " ">>}

\* Names of the items persisted in the project.
PersistedNames == {<<"c">>}

\* An empty string, as an element of a malformed identify response.
EmptyName == <<>>

\* URLs of persisted item images, as the server sends them: strings the
\* component never inspects.  "c.png" is the file name of the item named "c".
Urls == {<<"u">>, <<"c", ".png">>}

\* undefined imageUrl / undefined searchResults
NoUrl == <<>>
NoResults == <<>>

Digits == <<"0", "1", "2", "3", "4", "5", "6", "7", "8", "9">>

\* Number-to-string conversion of a template literal, for the small numbers used.
ToStr(n) == IF n < 10 THEN <<Digits[n + 1]>>
            ELSE <<Digits[(n \div 10) + 1], Digits[(n % 10) + 1]>>

IsSpace(ch) == ch = " "

\* name.replace(/\s+/g, '-'): every maximal run of whitespace becomes one dash.
RECURSIVE DashName(_)
DashName(s) ==
    IF s = <<>> THEN <<>>
    ELSE IF IsSpace(Head(s))
         THEN IF Len(s) > 1 /\ IsSpace(s[2])
              THEN DashName(Tail(s))
              ELSE <<"-">> \o DashName(Tail(s))
         ELSE <<Head(s)>> \o DashName(Tail(s))

\* `${name.replace(/\s+/g, '-')}-${Date.now()}`
ExtractedId(name, t) == DashName(name) \o <<"-">> \o ToStr(t)

\* `${item.name.replace(/\s+/g, '-')}-${Date.now()}-${index}`
LoadedId(name, t, index) == DashName(name) \o <<"-">> \o ToStr(t) \o <<"-">> \o ToStr(index)

\* `${item.name}.png`
PngName(name) == name \o <<".png">>

RECURSIVE SeqsUpTo(_, _)
SeqsUpTo(S, n) ==
    IF n = 0 THEN {<<>>}
    ELSE LET shorter == SeqsUpTo(S, n - 1)
         IN  shorter \cup {Append(s, x) : s \in {t \in shorter : Len(t) = n - 1}, x \in S}

\* The loading messages; `i of n` is filled in by the extraction loop only.
Message(kind, i, n) == [kind |-> kind, i |-> i, n |-> n]
NoMessage == Message("", 0, 0)

NoFeedback == [type |-> Null, message |-> ""]

NoSearchReply == [kind |-> "none", success |-> FALSE, results |-> <<>>]

\* No settled request is waiting for its continuation.
NoReply == [kind |-> "none", items |-> <<>>]

\* A value of the untyped JSON field data.items: a list, or an object that is no list.
JsList(items) == [kind |-> "list", items |-> items]
EmptyList == JsList(<<>>)
JsObject == [kind |-> "object", items |-> <<>>]

\* v.length for such a value; -1 stands for undefined.
JsLength(v) == IF v.kind = "list" THEN Len(v.items) ELSE -1

-----------------------------------------------------------------------------
(* Initial state: the component has just mounted; the effect of lines 39-92 *)
(* has started loadProjectData, which is awaiting the project.              *)

ExtractorInit ==
    /\ uploadedFiles = 0
    /\ uploadedImagePreviews = <<>>
    /\ extractedItems = <<>>
    /\ isLoading = FALSE
    /\ loadingMessage = NoMessage
    /\ error = Null
    /\ selectedItemIds = {}
    /\ isSending = FALSE
    /\ apiFeedback = NoFeedback
    /\ now = 0
    /\ build \in {"module", "downlevel"}
    /\ rpc = "idle"
    /\ itemNames = EmptyList
    /\ runReply = NoReply
    /\ idx = 0
    /\ formData = <<>>
    /\ warned = <<>>
    /\ lpc = "project"
    /\ loadPending = {}
    /\ loadBuilt = <<>>
    /\ spc = "idle"
    /\ sendSelected = {}
    /\ sendQueries = <<>>
    /\ sendReply = NoSearchReply

\* A settled promise runs its continuation before any other task is taken up:
\* while a reply waits for its continuation, nothing else happens.
Quiet == runReply = NoReply /\ sendReply = NoSearchReply

\* The millisecond clock read by Date.now().  It is read when an extraction
\* request or an image fetch settles, so its advance is followed while one of
\* them is in flight.
Tick ==
    /\ Quiet
    /\ now < MaxTime
    /\ rpc = "extract" \/ lpc = "images"
    /\ now' = now + 1
    /\ UNCHANGED <<appVars, runVars, loadVars, sendVars, build, authVars, otherVars>>

-----------------------------------------------------------------------------
(* handleFileUpload, lines 115-147 *)

HandleFileUpload ==
    /\ Quiet
    /\ ~isLoading
    /\ uploadedFiles < MaxFiles
    /\ uploadedFiles' = uploadedFiles + 1
    /\ uploadedImagePreviews' = Append(uploadedImagePreviews, "blob")
    /\ UNCHANGED <<extractedItems, isLoading, loadingMessage, error, selectedItemIds,
                   isSending, apiFeedback, runVars, loadVars, sendVars, now, build, authVars, otherVars>>

-----------------------------------------------------------------------------
(* runExtractionProcess, lines 149-294 *)

\* What the identify request can settle with (lines 184-198): the promise
\* rejects, the status is an error, the body is no JSON, or the body is JSON
\* whose items field is missing, an object that is no list, or a list.
IdentifyResponses ==
    {[kind |-> k, items |-> <<>>] : k \in {"reject", "notOk", "badJson", "missing", "object"}}
    \cup {[kind |-> "list", items |-> l] : l \in SeqsUpTo(Names, MaxItems)}
    \cup {[kind |-> "list", items |-> <<EmptyName>>]}

\* Line 198: itemNames = data.items || []
ParseItems(resp) ==
    CASE resp.kind = "list"   -> JsList(resp.items)
      [] resp.kind = "object" -> JsObject
      [] OTHER                -> EmptyList

\* A finally block that clears the message and leaves the flag.
FinallyKeepingFlag ==
    /\ isLoading' = isLoading
    /\ loadingMessage' = NoMessage
    /\ rpc' = "idle"
    /\ itemNames' = EmptyList
    /\ idx' = 0
    /\ formData' = <<>>

\* The finally block, lines 290-293, and the return: the locals are gone.
Finally ==
    /\ isLoading' = FALSE
    /\ loadingMessage' = NoMessage
    /\ rpc' = "idle"
    /\ itemNames' = EmptyList
    /\ idx' = 0
    /\ formData' = <<>>

\* The catch block, lines 288-289, followed by the finally block.
CatchOuter(message) ==
    /\ error' = message
    /\ Finally

\* The head of one loop iteration, lines 263-267, for loop index k, up to the
\* await of line 269.  Line 264 reads `formData`, which is declared by const
\* inside the block of lines 168-199, and assigns the undeclared `newFormData`:
\* a module build (strict, block scoped) throws ReferenceError there, a
\* down-levelled non-strict build (var, hoisted) goes on with the one shared
\* formData of the identify request.
LoopHead(k, names, err, warnings) ==
    IF k < JsLength(names)
    THEN IF build = "module"
         THEN CatchOuter("formData is not defined") /\ warned' = warnings
         ELSE /\ formData' = Append(formData, names.items[k + 1])
              /\ loadingMessage' = Message("Extracting", k + 1, Len(names.items))
              /\ idx' = k
              /\ itemNames' = names
              /\ rpc' = "extract"
              /\ error' = err
              /\ warned' = warnings
              /\ UNCHANGED isLoading
    ELSE /\ Finally
         /\ error' = err
         /\ warned' = warnings

\* Click on "Extract Items" (enabled by line 563): lines 149-190, up to the
\* await of the identify request.
RunExtractionProcess ==
    /\ Quiet
    /\ rpc = "idle"
    /\ ~isLoading
    /\ Len(extractedItems) = 0
    /\ LET hasFiles == uploadedFiles > 0
           hasUrls  == \E k \in 1..Len(uploadedImagePreviews) : uploadedImagePreviews[k] = "http"
       IN  hasFiles \/ hasUrls
    /\ isLoading' = TRUE
    /\ error' = Null
    /\ extractedItems' = <<>>
    /\ apiFeedback' = NoFeedback
    /\ selectedItemIds' = {}
    /\ loadingMessage' = Message("Analyzing", 0, 0)
    /\ rpc' = "identify"
    /\ warned' = <<>>
    /\ UNCHANGED <<uploadedFiles, uploadedImagePreviews, isSending, itemNames, idx,
                   formData, runReply, loadVars, sendVars, now, build, authVars, otherVars>>

\* The identify request settles with resp.
IdentifyReply(resp) ==
    /\ Quiet
    /\ rpc = "identify"
    /\ runReply' = resp
    /\ UNCHANGED <<appVars, rpc, itemNames, idx, formData, warned, loadVars, sendVars,
                   now, build, authVars, otherVars>>

\* The code after the await of the identify request: lines 184-267.
IdentifyRespond ==
    /\ rpc = "identify"
    /\ runReply # NoReply
    /\ runReply' = NoReply
    /\ IF runReply.kind \in {"reject", "notOk", "badJson"}
       THEN CatchOuter("Failed to identify items") /\ UNCHANGED warned
       ELSE IF JsLength(ParseItems(runReply)) = 0
            THEN \* lines 219-223, then the finally block
                 /\ error' = "No items could be identified"
                 /\ Finally
                 /\ UNCHANGED warned
            ELSE LoopHead(0, ParseItems(runReply), error, warned)
    /\ UNCHANGED <<uploadedFiles, uploadedImagePreviews, extractedItems, selectedItemIds,
                   isSending, apiFeedback, loadVars, sendVars, now, build, authVars, otherVars>>

\* What one extraction request can settle with (line 269): the promise
\* rejects, or it resolves with a Response whose status is ok or an error.
ExtractOutcomes == {"reject", "ok", "error"}

\* The extraction request of item idx settles with outcome.
ExtractReply(outcome) ==
    /\ Quiet
    /\ rpc = "extract"
    /\ runReply' = [kind |-> outcome, items |-> <<>>]
    /\ UNCHANGED <<appVars, rpc, itemNames, idx, formData, warned, loadVars, sendVars,
                   now, build, authVars, otherVars>>

\* Lines 276-279: the item appended for a resolved request.  itemImageBase64 is
\* the Response that authenticatedFetch resolved with, whatever its status.
NewExtractedItem(name) ==
    [id |-> ExtractedId(name, now),
     name |-> name,
     imageBase64 |-> "Response",
     imageUrl |-> NoUrl,
     searchResults |-> NoResults]

\* A variant of AppendItem that puts the new item first.
PrependItem(prev, item) == <<item>> \o prev

\* Lines 276-279: setExtractedItems(prev => [...prev, item])
AppendItem(prev, item) == Append(prev, item)

\* Line 283: console.warn(`Could not extract "${name}". Skipping.`); the error
\* caught is not written.
Warning(name) == [name |-> name, reason |-> ""]

\* The code after the await of the extraction request of item idx: lines
\* 269-285, and the head of the next iteration or the end of the run.
ExtractRespond ==
    /\ rpc = "extract"
    /\ runReply # NoReply
    /\ runReply' = NoReply
    /\ LET name == itemNames.items[idx + 1]
       IN  IF runReply.kind = "reject"
           THEN /\ UNCHANGED extractedItems
                /\ LoopHead(idx + 1, itemNames, error, Append(warned, Warning(name)))
           ELSE /\ extractedItems' =
                       AppendItem(extractedItems, NewExtractedItem(name))
                /\ LoopHead(idx + 1, itemNames, error, warned)
    /\ UNCHANGED <<uploadedFiles, uploadedImagePreviews, selectedItemIds, isSending,
                   apiFeedback, loadVars, sendVars, now, build, authVars, otherVars>>

-----------------------------------------------------------------------------
(* loadProjectData, lines 39-92 *)

\* project.extracted_items: the persisted items, each with a name and a url.
\* The component takes them as the server sends them; two entries may carry
\* the same url.
PersistedItems == {[name |-> n, url |-> u] : n \in PersistedNames, u \in Urls}

\* The lists of persisted items followed: the first item is stored at "u".
PersistedLists ==
    {l \in SeqsUpTo(PersistedItems, MaxLoaded) : l # <<>> => l[1].url = <<"u">>}

\* What the project request can settle with (lines 42-46).
ProjectResponses ==
    {[kind |-> k, photos |-> 0, items |-> <<>>] : k \in {"reject", "notOk"}}
    \cup {[kind |-> "ok", photos |-> p, items |-> l] :
             p \in 0..MaxPhotos, l \in PersistedLists}

\* The entry of the items array whose map callback has not returned yet.
Unbuilt(item) ==
    [id |-> <<>>, name |-> item.name, imageBase64 |-> "", imageUrl |-> item.url,
     searchResults |-> NoResults]

\* Lines 75-80: the item the map callback returns for entry `index` (0-based).
LoadedItem(item, index, imageBase64) ==
    [id |-> LoadedId(item.name, now, index),
     name |-> item.name,
     imageBase64 |-> imageBase64,
     imageUrl |-> item.url,
     searchResults |-> NoResults]

\* The project request settles: lines 42-61, up to the image fetches that the
\* map callbacks await.
LoadProjectRespond(resp) ==
    /\ Quiet
    /\ lpc = "project"
    /\ IF resp.kind = "ok" /\ resp.photos > 0
       THEN uploadedImagePreviews' = [k \in 1..resp.photos |-> "http"]
       ELSE UNCHANGED uploadedImagePreviews
    /\ IF resp.kind = "ok" /\ Len(resp.items) > 0
       THEN /\ lpc' = "images"
            /\ loadPending' = 1..Len(resp.items)
            /\ loadBuilt' = [k \in 1..Len(resp.items) |-> Unbuilt(resp.items[k])]
       ELSE /\ lpc' = "done"
            /\ UNCHANGED <<loadPending, loadBuilt>>
    /\ UNCHANGED <<uploadedFiles, extractedItems, isLoading, loadingMessage, error,
                   selectedItemIds, isSending, apiFeedback, runVars, sendVars, now, build, authVars, otherVars>>

\* The image fetch of entry k settles and its map callback returns: lines
\* 59-81.  A failed fetch leaves imageBase64 empty (lines 71-73); the only
\* reader of the field, atob, decodes the empty string as well, so the two
\* outcomes are not told apart.  When the last callback has returned,
\* Promise.all resolves and line 83 replaces the collection.
LoadImageSettle(k) ==
    /\ Quiet
    /\ lpc = "images"
    /\ k \in loadPending
    /\ LET item  == [name |-> loadBuilt[k].name, url |-> loadBuilt[k].imageUrl]
           built == [loadBuilt EXCEPT ![k] =
                        LoadedItem(item, k - 1, "base64")]
       IN  /\ loadPending' = loadPending \ {k}
           /\ IF loadPending = {k}
              THEN /\ extractedItems' = built
                   /\ loadBuilt' = <<>>
                   /\ lpc' = "done"
              ELSE /\ loadBuilt' = built
                   /\ UNCHANGED <<extractedItems, lpc>>
    /\ UNCHANGED <<uploadedFiles, uploadedImagePreviews, isLoading, loadingMessage, error,
                   selectedItemIds, isSending, apiFeedback, runVars, sendVars, now, build, authVars, otherVars>>

-----------------------------------------------------------------------------
(* handleItemSelect, lines 321-332, and resetState, lines 94-113 *)

\* Click on the card of an item on display (ItemCard, line 18).
HandleItemSelect(itemId) ==
    /\ Quiet
    /\ \E k \in 1..Len(extractedItems) : extractedItems[k].id = itemId
    /\ apiFeedback' = NoFeedback
    /\ selectedItemIds' = IF itemId \in selectedItemIds
                          THEN selectedItemIds \ {itemId}
                          ELSE selectedItemIds \cup {itemId}
    /\ UNCHANGED <<uploadedFiles, uploadedImagePreviews, extractedItems, isLoading,
                   loadingMessage, error, isSending, runVars, loadVars, sendVars, now, build, authVars, otherVars>>

\* Click on "Start Over" (shown by line 502, enabled by line 556).  Calls in
\* flight are not told: they go on and settle later.
ResetState ==
    /\ Quiet
    /\ Len(uploadedImagePreviews) > 0
    /\ ~isLoading
    /\ uploadedFiles' = 0
    /\ uploadedImagePreviews' = <<>>
    /\ extractedItems' = <<>>
    /\ isLoading' = FALSE
    /\ loadingMessage' = NoMessage
    /\ error' = Null
    /\ selectedItemIds' = {}
    /\ isSending' = FALSE
    /\ apiFeedback' = NoFeedback
    /\ UNCHANGED <<runVars, loadVars, sendVars, now, build, authVars, otherVars>>

-----------------------------------------------------------------------------
(* handleSendToApi, lines 334-425 *)

\* Line 340: extractedItems.filter(item => selectedItemIds.has(item.id))
RECURSIVE SelectedItems(_, _)
SelectedItems(items, ids) ==
    IF items = <<>> THEN <<>>
    ELSE (IF Head(items).id \in ids THEN <<Head(items)>> ELSE <<>>)
         \o SelectedItems(Tail(items), ids)

\* atob(item.imageBase64), line 359: a base64 string (the empty one too)
\* decodes; a Response object is converted to the string "[object Response]",
\* which is no base64, and atob throws InvalidCharacterError.
AtobThrows(imageBase64) == imageBase64 = "Response"

\* Line 394: item.imageUrl || `${item.name}.png`
ItemIdentifier(item) == IF item.imageUrl # NoUrl THEN item.imageUrl ELSE PngName(item.name)

\* Lines 395-397: the first result whose query_identifier is the item's
\* identifier or its file name; 0 when find() returns undefined.
FindMatch(results, item) ==
    LET hits == {k \in 1..Len(results) :
                    \/ results[k].query_identifier = ItemIdentifier(item)
                    \/ results[k].query_identifier = PngName(item.name)}
    IN  IF hits = {} THEN 0 ELSE CHOOSE k \in hits : \A h \in hits : k <= h

\* A variant of Correlate whose choice among several matching results depends
\* on the clock: the first match at even times, the last at odd times.
CorrelateByClock(prevItems, selected, results) ==
    [k \in 1..Len(prevItems) |->
        LET item == prevItems[k]
            hits == {j \in 1..Len(results) :
                        \/ results[j].query_identifier = ItemIdentifier(item)
                        \/ results[j].query_identifier = PngName(item.name)}
            m    == IF hits = {} THEN 0
                    ELSE IF now % 2 = 0 THEN FindMatch(results, item)
                    ELSE CHOOSE j \in hits : \A h \in hits : j >= h
        IN  IF item.id \in selected /\ m # 0 /\ results[m].success
            THEN [item EXCEPT !.searchResults = results[m].results]
            ELSE item]

\* A variant of Correlate that builds the enriched item anew, id included.
CorrelateRenewingId(prevItems, selected, results) ==
    [k \in 1..Len(prevItems) |->
        LET item == prevItems[k]
            m    == FindMatch(results, item)
        IN  IF item.id \in selected /\ m # 0 /\ results[m].success
            THEN [item EXCEPT !.searchResults = results[m].results,
                              !.id = LoadedId(item.name, now, k)]
            ELSE item]

\* Lines 390-408: the updater passed to setExtractedItems.
Correlate(prevItems, selected, results) ==
    [k \in 1..Len(prevItems) |->
        LET item == prevItems[k]
            m    == FindMatch(results, item)
        IN  IF item.id \in selected /\ m # 0 /\ results[m].success
            THEN [item EXCEPT !.searchResults = results[m].results]
            ELSE item]

\* One query of the search request: the URL (line 353) or the file name (line
\* 366) that identifies it, and the image it carries, written as the id of the
\* item the image belongs to.
Query(identifier, item) == [identifier |-> identifier, image |-> item.id]

\* A variant of SendDisabled that leaves out isLoading.
SendDisabledIgnoringLoading == isSending \/ selectedItemIds = {}

\* Line 571: disabled={isLoading || isSending || selectedItemIds.size === 0}
SendDisabled == isLoading \/ isSending \/ selectedItemIds = {}

\* Click on "Send Selection" (enabled by line 571): lines 334-379, up to the
\* await of the search request, or through the catch when atob throws.
\* One call is followed at a time.
HandleSendToApi ==
    /\ Quiet
    /\ spc = "idle"
    /\ Len(uploadedImagePreviews) > 0
    /\ ~SendDisabled
    /\ LET selectedItems == SelectedItems(extractedItems, selectedItemIds)
           hasUrls == \A k \in 1..Len(selectedItems) : selectedItems[k].imageUrl # NoUrl
       IN  IF hasUrls
           THEN /\ sendQueries' = [k \in 1..Len(selectedItems) |->
                                      Query(selectedItems[k].imageUrl, selectedItems[k])]
                /\ sendSelected' = selectedItemIds
                /\ spc' = "awaiting"
                /\ isSending' = TRUE
                /\ apiFeedback' = NoFeedback
           ELSE IF \E k \in 1..Len(selectedItems) : AtobThrows(selectedItems[k].imageBase64)
           THEN \* catch, lines 417-421, and finally, lines 422-424
                /\ apiFeedback' = [type |-> "error", message |-> "InvalidCharacterError"]
                /\ isSending' = FALSE
                /\ UNCHANGED <<spc, sendSelected, sendQueries>>
           ELSE /\ sendQueries' = [k \in 1..Len(selectedItems) |->
                                      Query(PngName(selectedItems[k].name), selectedItems[k])]
                /\ sendSelected' = selectedItemIds
                /\ spc' = "awaiting"
                /\ isSending' = TRUE
                /\ apiFeedback' = NoFeedback
    /\ UNCHANGED <<uploadedFiles, uploadedImagePreviews, extractedItems, isLoading,
                   loadingMessage, error, selectedItemIds, sendReply, runVars, loadVars,
                   now, build, authVars, otherVars>>

Perms(n) == {p \in [1..n -> 1..n] : \A a, b \in 1..n : p[a] = p[b] => a = b}

\* The results of the search service for the queries sent: one outcome per
\* query, carrying the identifier of the query, in any order; the outcome of
\* a query that failed carries no results.  The results found for an image
\* are written as that image.
SearchOutcomes(queries) ==
    {[k \in 1..Len(queries) |->
        [query_identifier |-> queries[p[k]].identifier,
         success |-> ok[p[k]],
         results |-> IF ok[p[k]] THEN queries[p[k]].image ELSE NoResults]] :
     p \in Perms(Len(queries)), ok \in [1..Len(queries) -> BOOLEAN]}

\* What the search request can settle with (lines 376-386).
SearchResponses(queries) ==
    {[kind |-> k, success |-> FALSE, results |-> <<>>] : k \in {"reject", "notOk"}}
    \cup {[kind |-> "ok", success |-> FALSE, results |-> <<>>]}
    \cup {[kind |-> "ok", success |-> TRUE, results |-> r] : r \in SearchOutcomes(queries)}

\* The search request settles with resp.
SendReply(resp) ==
    /\ Quiet
    /\ spc = "awaiting"
    /\ sendReply' = resp
    /\ UNCHANGED <<appVars, spc, sendSelected, sendQueries, runVars, loadVars, now, build, authVars, otherVars>>

\* A continuation whose catch block clears the selection as well.
SendRespondClearingSelection ==
    /\ spc = "awaiting"
    /\ sendReply # NoSearchReply
    /\ sendReply' = NoSearchReply
    /\ spc' = "idle"
    /\ sendSelected' = {}
    /\ sendQueries' = <<>>
    /\ isSending' = FALSE
    /\ IF sendReply.kind = "ok"
       THEN /\ extractedItems' = IF sendReply.success /\ Len(sendReply.results) > 0
                                 THEN Correlate(extractedItems, sendSelected, sendReply.results)
                                 ELSE extractedItems
            /\ apiFeedback' = [type |-> "success", message |-> "Found results"]
       ELSE /\ apiFeedback' = [type |-> "error", message |-> "Failed to upload items"]
            /\ UNCHANGED extractedItems
    /\ selectedItemIds' = {}
    /\ UNCHANGED <<uploadedFiles, uploadedImagePreviews, isLoading, loadingMessage, error,
                   runVars, loadVars, now, build, authVars, otherVars>>

\* The code after the await of the search request: lines 376-424.
SendRespond ==
    /\ spc = "awaiting"
    /\ sendReply # NoSearchReply
    /\ sendReply' = NoSearchReply
    /\ spc' = "idle"
    /\ sendSelected' = {}
    /\ sendQueries' = <<>>
    /\ isSending' = FALSE
    /\ IF sendReply.kind = "ok"
       THEN /\ extractedItems' = IF sendReply.success /\ Len(sendReply.results) > 0
                                 THEN Correlate(extractedItems, sendSelected, sendReply.results)
                                 ELSE extractedItems
            /\ apiFeedback' = [type |-> "success", message |-> "Found results"]
            /\ selectedItemIds' = {}
       ELSE /\ apiFeedback' = [type |-> "error", message |-> "Failed to upload items"]
            /\ UNCHANGED <<extractedItems, selectedItemIds>>
    /\ UNCHANGED <<uploadedFiles, uploadedImagePreviews, isLoading, loadingMessage, error,
                   runVars, loadVars, now, build, authVars, otherVars>>

-----------------------------------------------------------------------------

-----------------------------------------------------------------------------
(* The session: frontend/services/authService.ts (AuthService),            *)
(* frontend/contexts/AuthContext.tsx (AuthProvider) and frontend/App.tsx   *)
(* (AppContent).  A token is the number of the pair the server issued it   *)
(* with; the pair a page load finds in localStorage is pair 0.             *)

\* most token pairs the server issues after the page load
MaxIssued == 2
\* most authenticatedFetch calls of the pages that run at the same time
MaxCalls == 2

Calls == 1..MaxCalls

\* The access and the refresh token of the n-th pair the server issued
Pair(n) == <<"t0", "t1", "t2", "t3", "t4">>[n + 1]

\* The number of the next pair.  A behaviour that is followed for ever needs
\* pair after pair: there (recycle) the numbers start over after MaxIssued;
\* elsewhere the server stops accepting once MaxIssued pairs are out.
CanIssue == recycle \/ issued < MaxIssued
NextIssued == IF recycle /\ issued >= MaxIssued THEN 1 ELSE issued + 1

\* The other tab before it is opened
ClosedTab == [pc |-> "closed", accessToken |-> Null]

\* UserResponse, reduced to what AppContent reads of it: a user is named by
\* the one role it has.
Users == {"designer", "admin", "viewer"}
RolesOf(u) == {u}

SessionExpired == "Session expired. Please login again."
NoAccessToken == "No access token available"

\* localStorage.removeItem and localStorage.setItem
RemoveItem(store, key) == [store EXCEPT ![key] = Null]
SetItem(store, key, value) == [store EXCEPT ![key] = value]

\* A clearing that forgets the refresh token
StoreAccessCleared(store) == RemoveItem(store, "access_token")

\* A saving that keeps the old refresh token
StoreAccessSaved(store, pair) == SetItem(store, "access_token", pair)

\* localStorage without and with a token pair (authService.ts lines 63-70, 54-61)
StoreCleared(store) == RemoveItem(RemoveItem(store, "access_token"), "refresh_token")
StoreSaved(store, pair) == SetItem(SetItem(store, "access_token", pair), "refresh_token", pair)

\* The two methods act on store, localStorage as the step has left it so far.
clearTokensFromStorage(store) ==
    /\ localStorage' = StoreCleared(store)
    /\ accessToken' = Null
    /\ refreshToken' = Null

saveTokensToStorage(store, pair) ==
    /\ localStorage' = StoreSaved(store, pair)
    /\ accessToken' = pair
    /\ refreshToken' = pair

tokenVars == <<accessToken, refreshToken, localStorage>>
extractorVars == <<appVars, runVars, loadVars, sendVars, now, build>>

\* AppContent line 25: user?.roles?.some(r => r.name === 'designer' || r.name === 'admin')
MainRoles == {"designer", "admin"}
HasMainRole(u) == u # Null /\ \E r \in RolesOf(u) : r \in MainRoles

\* What AppContent returns: the page on screen.
Shown ==
    IF authLoading THEN "loading"
    ELSE IF isAuthenticated /\ HasMainRole(user)
         THEN IF selectedProject = Null THEN "projects" ELSE "extractor"
         ELSE view

\* setUser and setIsLoading of AuthProvider.  The provider renders again, and
\* computes isAuthenticated again from the service, only when one of its two
\* states changes; fresh tells that setUser was given a newly parsed object.
SetState(u, loading, fresh) ==
    /\ user' = u
    /\ authLoading' = loading
    /\ isAuthenticated' = IF fresh \/ u # user \/ loading # authLoading
                          THEN accessToken' # Null
                          ELSE isAuthenticated

\* What an authenticatedFetch call settles with: a Response or a thrown Error
NoOutcome == [kind |-> "none", detail |-> Null, bearer |-> Null]
Response(status, bearer) == [kind |-> "response", detail |-> status, bearer |-> bearer]
Thrown(message) == [kind |-> "error", detail |-> message, bearer |-> Null]

\* bearer is the access token the request in flight bears (line 201), sent the
\* refresh token in the body of the refresh in flight (line 119).
IdleCall == [pc |-> "idle", bearer |-> Null, sent |-> Null, retried |-> FALSE,
             outcome |-> NoOutcome]

\* A page load: the service reads the tokens from localStorage (lines 47-52),
\* the provider reads user_data (AuthContext lines 22-38) and starts loading.
SessionInit ==
    /\ ExtractorInit
    /\ \E pair \in {Null, Pair(0)}, cached \in {Null} \cup Users :
          /\ localStorage = [access_token |-> pair, refresh_token |-> pair, user_data |-> cached]
          /\ accessToken = pair
          /\ refreshToken = pair
          /\ user = cached
          /\ isAuthenticated = (pair # Null)
    /\ authLoading = TRUE
    /\ view = "home"
    /\ selectedProject = Null
    /\ apc = "mount"
    /\ op = "none"
    /\ meBearer = Null
    /\ meResult = Null
    /\ lastLogout = "none"
    /\ issued = 0
    /\ calls = [c \in Calls |-> IdleCall]

\* The page load of a browser with this one tab
AuthInit ==
    /\ SessionInit
    /\ tab2 = ClosedTab
    /\ recycle = FALSE

\* The state in which ExtractorApp is mounted: a designer has logged in and
\* has selected a project.
Init ==
    /\ ExtractorInit
    /\ localStorage = [access_token |-> Pair(1), refresh_token |-> Pair(1),
                       user_data |-> "designer"]
    /\ accessToken = Pair(1)
    /\ refreshToken = Pair(1)
    /\ user = "designer"
    /\ isAuthenticated = TRUE
    /\ authLoading = FALSE
    /\ view = "login"
    /\ selectedProject = "project"
    /\ apc = "idle"
    /\ op = "none"
    /\ meBearer = Null
    /\ meResult = "user"
    /\ lastLogout = "none"
    /\ issued = 1
    /\ calls = [c \in Calls |-> IdleCall]
    /\ tab2 = ClosedTab
    /\ recycle = FALSE

\* AuthContext lines 43-73: the effect of the first render.  isAuthenticated
\* is the constant of that render; with a token, getCurrentUser sends GET
\* /auth/me (authService.ts lines 153-164).
InitializeAuth ==
    /\ apc = "mount"
    /\ IF isAuthenticated
       THEN /\ apc' = "me"
            /\ op' = "init"
            /\ meBearer' = accessToken
            /\ UNCHANGED <<tokenVars, user, authLoading, isAuthenticated>>
       ELSE /\ localStorage' = RemoveItem(localStorage, "user_data")
            /\ UNCHANGED <<accessToken, refreshToken>>
            /\ SetState(Null, FALSE, FALSE)
            /\ apc' = "idle"
            /\ UNCHANGED <<op, meBearer>>
    /\ UNCHANGED <<view, selectedProject, meResult, lastLogout, issued, calls, extractorVars, otherVars>>

\* getCurrentUser has thrown message inside the handler named by op; cleared
\* tells whether it has cleared the tokens first.  initializeAuth catches,
\* awaits authService.logout() (which sends POST /auth/logout only when an
\* access token is left) and drops the user (AuthContext lines 53-61, 69);
\* login and register rethrow and stop loading (lines 85-89, 98-102).
Rejected(cleared, message) ==
    /\ meResult' = message
    /\ meBearer' = Null
    /\ IF op = "init"
       THEN IF cleared \/ accessToken = Null
            THEN /\ clearTokensFromStorage(RemoveItem(localStorage, "user_data"))
                 /\ SetState(Null, FALSE, FALSE)
                 /\ apc' = "idle"
                 /\ op' = "none"
            ELSE /\ apc' = "logout"
                 /\ UNCHANGED <<tokenVars, user, authLoading, isAuthenticated, op>>
       ELSE /\ IF cleared THEN clearTokensFromStorage(localStorage) ELSE UNCHANGED tokenVars
            /\ SetState(user, FALSE, FALSE)
            /\ apc' = "idle"
            /\ op' = "none"
    /\ UNCHANGED lastLogout

\* What GET /auth/me settles with
MeResponses ==
    {[status |-> "200", user |-> u] : u \in Users}
        \cup {[status |-> s, user |-> Null] : s \in {"401", "500", "rejected"}}

\* authService.ts lines 166-182 with the continuation of the handler that
\* awaits getCurrentUser (AuthContext lines 48-52, 69 and 80-84, 88).
GetCurrentUserRespond(resp) ==
    /\ apc = "me"
    /\ IF resp.status = "200"
       THEN /\ meResult' = "user"
            /\ meBearer' = Null
            /\ localStorage' = SetItem(localStorage, "user_data", resp.user)
            /\ UNCHANGED <<accessToken, refreshToken>>
            /\ SetState(resp.user, FALSE, TRUE)
            /\ apc' = "idle"
            /\ op' = "none"
            /\ UNCHANGED lastLogout
       ELSE IF resp.status = "401"
       THEN IF refreshToken = Null
            THEN Rejected(TRUE, SessionExpired)
            ELSE /\ apc' = "refresh"
                 /\ UNCHANGED <<tokenVars, user, authLoading, isAuthenticated, op, meBearer,
                                meResult, lastLogout>>
       ELSE Rejected(FALSE, resp.status)
    /\ UNCHANGED <<view, selectedProject, issued, calls, extractorVars, otherVars>>

\* What POST /auth/refresh, /auth/login, /auth/register and /auth/logout settle
\* with: an ok response, another response, or a rejected fetch.
Settlements == {"ok", "failed", "rejected"}

\* refreshAccessToken (lines 114-129) inside getCurrentUser (lines 169-176):
\* the new pair is saved and the request sent again, or the tokens are cleared.
GetCurrentUserRefreshed(resp) ==
    /\ apc = "refresh"
    /\ IF resp = "ok"
       THEN /\ CanIssue
            /\ issued' = NextIssued
            /\ saveTokensToStorage(localStorage, Pair(NextIssued))
            /\ apc' = "me"
            /\ meBearer' = Pair(NextIssued)
            /\ UNCHANGED <<user, authLoading, isAuthenticated, op, meResult, lastLogout>>
       ELSE /\ Rejected(TRUE, SessionExpired)
            /\ UNCHANGED issued
    /\ UNCHANGED <<view, selectedProject, calls, extractorVars, otherVars>>

\* AuthContext lines 75-78: login of the LoginPage
Login ==
    /\ apc = "idle"
    /\ Shown = "login"
    /\ apc' = "login"
    /\ op' = "login"
    /\ UNCHANGED tokenVars
    /\ SetState(user, TRUE, FALSE)
    /\ UNCHANGED <<view, selectedProject, meBearer, meResult, lastLogout, issued, calls,
                   extractorVars, otherVars>>

\* authService.ts lines 99-106, then getCurrentUser (AuthContext line 79) or
\* the finally of login (line 88)
LoginRespond(resp) ==
    /\ apc = "login"
    /\ IF resp = "ok"
       THEN /\ CanIssue
            /\ issued' = NextIssued
            /\ saveTokensToStorage(localStorage, Pair(NextIssued))
            /\ apc' = "me"
            /\ meBearer' = Pair(NextIssued)
            /\ UNCHANGED <<user, authLoading, isAuthenticated, op>>
       ELSE /\ UNCHANGED <<tokenVars, issued, meBearer>>
            /\ SetState(user, FALSE, FALSE)
            /\ apc' = "idle"
            /\ op' = "none"
    /\ UNCHANGED <<view, selectedProject, meResult, lastLogout, calls, extractorVars, otherVars>>

\* AuthContext lines 92-95: register of the RegistrationPage
Register ==
    /\ apc = "idle"
    /\ Shown = "register"
    /\ apc' = "register"
    /\ op' = "register"
    /\ UNCHANGED tokenVars
    /\ SetState(user, TRUE, FALSE)
    /\ UNCHANGED <<view, selectedProject, meBearer, meResult, lastLogout, issued, calls,
                   extractorVars, otherVars>>

\* authService.ts lines 82-87, then login (AuthContext line 97) or the finally
\* of register (line 101)
RegisterRespond(resp) ==
    /\ apc = "register"
    /\ UNCHANGED tokenVars
    /\ IF resp = "ok"
       THEN /\ apc' = "login"
            /\ UNCHANGED <<user, authLoading, isAuthenticated, op>>
       ELSE /\ SetState(user, FALSE, FALSE)
            /\ apc' = "idle"
            /\ op' = "none"
    /\ UNCHANGED <<view, selectedProject, meBearer, meResult, lastLogout, issued, calls,
                   extractorVars, otherVars>>

\* AuthContext lines 105-108 with authService.ts lines 132-145: the Logout
\* button of ProjectsPage and of ExtractorApp.  Without an access token no
\* request is sent and the handler runs to its end.
Logout ==
    /\ apc = "idle"
    /\ Shown \in {"projects", "extractor"}
    /\ IF accessToken = Null
       THEN /\ clearTokensFromStorage(RemoveItem(localStorage, "user_data"))
            /\ SetState(Null, FALSE, TRUE)
            /\ lastLogout' = "skipped"
            /\ UNCHANGED <<apc, op>>
       ELSE /\ UNCHANGED <<tokenVars, lastLogout>>
            /\ SetState(user, TRUE, FALSE)
            /\ apc' = "logout"
            /\ op' = "logout"
    /\ UNCHANGED <<view, selectedProject, meBearer, meResult, issued, calls, extractorVars, otherVars>>

\* authService.ts lines 146-150 (catch, finally), then AuthContext lines
\* 109-113 and 122, or lines 57-60 and 69 when initializeAuth awaited.
LogoutRespond(outcome) ==
    /\ apc = "logout"
    /\ clearTokensFromStorage(RemoveItem(localStorage, "user_data"))
    /\ SetState(Null, FALSE, FALSE)
    /\ apc' = "idle"
    /\ op' = "none"
    /\ lastLogout' = outcome
    /\ UNCHANGED <<view, selectedProject, meBearer, meResult, issued, calls, extractorVars, otherVars>>

\* App.tsx lines 43-44, 48-49, 54-56: the links of the three public pages
SetView(v) ==
    /\ Shown \in {"home", "login", "register"}
    /\ v # view
    /\ view' = v
    /\ UNCHANGED <<tokenVars, user, authLoading, isAuthenticated, selectedProject, apc, op,
                   meBearer, meResult, lastLogout, issued, calls, extractorVars, otherVars>>

\* App.tsx line 27: onSelectProject of ProjectsPage
SelectProject ==
    /\ Shown = "projects"
    /\ selectedProject' = "project"
    /\ UNCHANGED <<tokenVars, user, authLoading, isAuthenticated, view, apc, op,
                   meBearer, meResult, lastLogout, issued, calls, extractorVars, otherVars>>

\* App.tsx line 33: onChangeProject of ExtractorApp
ChangeProject ==
    /\ Shown = "extractor"
    /\ selectedProject' = Null
    /\ UNCHANGED <<tokenVars, user, authLoading, isAuthenticated, view, apc, op,
                   meBearer, meResult, lastLogout, issued, calls, extractorVars, otherVars>>

providerVars == <<user, authLoading, isAuthenticated, view, selectedProject, apc, op,
                  meBearer, meResult, lastLogout>>

\* authService.ts lines 195-209: a page (ProjectsPage, ExtractorApp) calls
\* authenticatedFetch; the request bears the access token held at the call.
AuthenticatedFetch(c) ==
    /\ calls[c].pc = "idle"
    /\ Shown \in {"projects", "extractor"}
    /\ calls' = [calls EXCEPT ![c] =
                    IF accessToken = Null
                    THEN [IdleCall EXCEPT !.outcome = Thrown(NoAccessToken)]
                    ELSE [pc |-> "fetch", bearer |-> accessToken, sent |-> Null,
                          retried |-> FALSE,
                          outcome |-> NoOutcome]]
    /\ UNCHANGED <<tokenVars, providerVars, issued, extractorVars, otherVars>>

\* What the request of a page settles with: a status or a rejected fetch
FetchResponses == {"200", "401", "500", "rejected"}

\* The call c has settled with outcome.
Settled(c, outcome) ==
    [calls EXCEPT ![c] = [pc |-> "idle", bearer |-> Null, sent |-> Null,
                          retried |-> calls[c].retried,
                          outcome |-> outcome]]

\* authService.ts lines 211-223.  On 401 refreshAccessToken throws at once
\* when no refresh token is held (lines 110-112), else sends POST /auth/refresh.
AuthenticatedFetchRespond(c, resp) ==
    /\ calls[c].pc = "fetch"
    /\ IF resp = "401"
       THEN IF refreshToken = Null
            THEN /\ clearTokensFromStorage(localStorage)
                 /\ calls' = Settled(c, Thrown(SessionExpired))
            ELSE /\ calls' = [calls EXCEPT ![c].pc = "refresh", ![c].sent = refreshToken]
                 /\ UNCHANGED tokenVars
       ELSE /\ calls' = Settled(c, IF resp = "rejected"
                                   THEN Thrown("Failed to fetch")
                                   ELSE Response(resp, calls[c].bearer))
            /\ UNCHANGED tokenVars
    /\ UNCHANGED <<providerVars, issued, extractorVars, otherVars>>

\* refreshAccessToken (lines 114-129) inside authenticatedFetch (lines
\* 213-220): the new pair is saved and the request sent again with it, or the
\* tokens are cleared and the call throws.
AuthenticatedFetchRefreshed(c, resp) ==
    /\ calls[c].pc = "refresh"
    /\ IF resp = "ok"
       THEN /\ CanIssue
            /\ issued' = NextIssued
            /\ saveTokensToStorage(localStorage, Pair(NextIssued))
            /\ calls' = [calls EXCEPT ![c] = [pc |-> "fetch", bearer |-> Pair(NextIssued),
                                              sent |-> Null, retried |-> TRUE,
                                              outcome |-> NoOutcome]]
       ELSE /\ clearTokensFromStorage(localStorage)
            /\ calls' = Settled(c, Thrown(SessionExpired))
            /\ UNCHANGED issued
    /\ UNCHANGED <<providerVars, extractorVars, otherVars>>

AuthNext ==
    \/ InitializeAuth
    \/ \E resp \in MeResponses : GetCurrentUserRespond(resp)
    \/ \E resp \in Settlements : GetCurrentUserRefreshed(resp)
    \/ Login
    \/ \E resp \in Settlements : LoginRespond(resp)
    \/ Register
    \/ \E resp \in Settlements : RegisterRespond(resp)
    \/ Logout
    \/ \E outcome \in Settlements : LogoutRespond(outcome)
    \/ \E v \in {"home", "login", "register"} : SetView(v)
    \/ SelectProject
    \/ ChangeProject
    \/ \E c \in Calls : AuthenticatedFetch(c)
    \/ \E c \in Calls, resp \in FetchResponses : AuthenticatedFetchRespond(c, resp)
    \/ \E c \in Calls, resp \in Settlements : AuthenticatedFetchRefreshed(c, resp)

AuthSpec == AuthInit /\ [][AuthNext]_vars

\* The session followed for ever.  Every request is answered or fails in the
\* end: each continuation of a request in flight is taken when it stays
\* enabled.  What the server answers is left open.
LiveInit ==
    /\ SessionInit
    /\ build = "module"
    /\ tab2 = ClosedTab
    /\ recycle = TRUE

RequestsSettle ==
    /\ WF_vars(\E resp \in MeResponses : GetCurrentUserRespond(resp))
    /\ WF_vars(\E resp \in Settlements : GetCurrentUserRefreshed(resp))
    /\ WF_vars(\E resp \in Settlements : LoginRespond(resp))
    /\ WF_vars(\E resp \in Settlements : RegisterRespond(resp))
    /\ WF_vars(\E outcome \in Settlements : LogoutRespond(outcome))
    /\ \A c \in Calls :
          /\ WF_vars(\E resp \in FetchResponses : AuthenticatedFetchRespond(c, resp))
          /\ WF_vars(\E resp \in Settlements : AuthenticatedFetchRefreshed(c, resp))

LiveSpec == LiveInit /\ [][AuthNext]_vars /\ RequestsSettle

\* A second tab of the same browser.  It runs the same program on the same
\* localStorage; of its state only the access token of its AuthService and
\* the position of its logout are followed.

\* authService.ts lines 41-52, 228: the page load of this tab finds the other
\* tab open; its service has read the tokens from the same localStorage.
TabsInit ==
    /\ SessionInit
    /\ build = "module"
    /\ tab2 = [pc |-> "open", accessToken |-> localStorage.access_token]
    /\ recycle = FALSE

\* authService.ts lines 132-145: the logged-in user clicks Logout in the other
\* tab, which sends POST /auth/logout.
OtherTabLogout ==
    /\ tab2.pc = "open"
    /\ tab2.accessToken # Null
    /\ tab2' = [tab2 EXCEPT !.pc = "logout"]
    /\ UNCHANGED <<tokenVars, providerVars, issued, calls, recycle, extractorVars>>

\* authService.ts lines 146-150 and AuthContext lines 109-113: the other tab
\* clears its tokens and removes the three keys from the shared localStorage.
OtherTabLogoutRespond ==
    /\ tab2.pc = "logout"
    /\ tab2' = [pc |-> "open", accessToken |-> Null]
    /\ localStorage' = RemoveItem(StoreCleared(localStorage), "user_data")
    /\ UNCHANGED <<accessToken, refreshToken, providerVars, issued, calls, recycle,
                   extractorVars>>

TabsNext ==
    \/ AuthNext
    \/ OtherTabLogout
    \/ OtherTabLogoutRespond

TabsSpec == TabsInit /\ [][TabsNext]_vars

-----------------------------------------------------------------------------

Next ==
    \/ Tick
    \/ HandleFileUpload
    \/ RunExtractionProcess
    \/ \E resp \in IdentifyResponses : IdentifyReply(resp)
    \/ IdentifyRespond
    \/ \E outcome \in ExtractOutcomes : ExtractReply(outcome)
    \/ ExtractRespond
    \/ \E resp \in ProjectResponses : LoadProjectRespond(resp)
    \/ \E k \in 1..MaxLoaded : LoadImageSettle(k)
    \/ \E itemId \in {extractedItems[k].id : k \in 1..Len(extractedItems)} :
          HandleItemSelect(itemId)
    \/ ResetState
    \/ HandleSendToApi
    \/ \E resp \in SearchResponses(sendQueries) : SendReply(resp)
    \/ SendRespond

Spec == Init /\ [][Next]_vars

\* ExtractorApp followed for ever.  Every external call returns or fails in
\* the end, and the continuation of a settled call is run.  A reply waits
\* only while the continuation of another reply runs, hence strong fairness
\* for the replies; a continuation is the only step enabled when it is due.
CallsReturn ==
    /\ SF_vars(\/ \E resp \in IdentifyResponses : IdentifyReply(resp)
               \/ \E outcome \in ExtractOutcomes : ExtractReply(outcome))
    /\ SF_vars(\E resp \in SearchResponses(sendQueries) : SendReply(resp))
    /\ WF_vars(IdentifyRespond \/ ExtractRespond \/ SendRespond)

\* The handlers and continuations of the component at one clock reading.
ExtractorLiveNext ==
    \/ HandleFileUpload
    \/ RunExtractionProcess
    \/ \E resp \in IdentifyResponses : IdentifyReply(resp)
    \/ IdentifyRespond
    \/ \E outcome \in ExtractOutcomes : ExtractReply(outcome)
    \/ ExtractRespond
    \/ \E resp \in ProjectResponses : LoadProjectRespond(resp)
    \/ \E k \in 1..MaxLoaded : LoadImageSettle(k)
    \/ \E itemId \in {extractedItems[k].id : k \in 1..Len(extractedItems)} :
          HandleItemSelect(itemId)
    \/ ResetState
    \/ HandleSendToApi
    \/ \E resp \in SearchResponses(sendQueries) : SendReply(resp)
    \/ SendRespond

ExtractorLiveSpec == Init /\ [][ExtractorLiveNext]_vars /\ CallsReturn

-----------------------------------------------------------------------------
(* Notions the properties below are stated with *)

\* The items of the collection that a run created: they carry no imageUrl.
RECURSIVE RunItems(_)
RunItems(items) ==
    IF items = <<>> THEN <<>>
    ELSE (IF Head(items).imageUrl = NoUrl THEN <<Head(items)>> ELSE <<>>)
         \o RunItems(Tail(items))

NamesOf(items) == [k \in 1..Len(items) |-> items[k].name]
IdsOf(items) == [k \in 1..Len(items) |-> items[k].id]

\* s is t with some elements left out.
RECURSIVE IsSubseq(_, _)
IsSubseq(s, t) ==
    IF s = <<>> THEN TRUE
    ELSE IF t = <<>> THEN FALSE
    ELSE IF Head(s) = Head(t) THEN IsSubseq(Tail(s), Tail(t))
    ELSE IsSubseq(s, Tail(t))

\* A name with the whitespace at its ends removed and its letters in lower case.
RECURSIVE TrimLeft(_)
TrimLeft(s) == IF s # <<>> /\ IsSpace(Head(s)) THEN TrimLeft(Tail(s)) ELSE s
RECURSIVE TrimRight(_)
TrimRight(s) ==
    IF s # <<>> /\ IsSpace(s[Len(s)]) THEN TrimRight(SubSeq(s, 1, Len(s) - 1)) ELSE s
LowerCase(ch) == IF ch = "C" THEN "c" ELSE ch
NormalizedName(s) ==
    LET t == TrimRight(TrimLeft(s)) IN [k \in 1..Len(t) |-> LowerCase(t[k])]

\* An identify response that is a list of non-empty strings.
WellFormed(resp) ==
    resp.kind = "list" /\ \A k \in 1..Len(resp.items) : resp.items[k] # EmptyName

\* The text of an image in base64, as opposed to a Response object.
IsImageData(imageBase64) == imageBase64 = "base64"

\* The errors that report a failed identification.
IdentificationErrors == {"Failed to identify items", "No items could be identified"}

\* The selected items of the search whose reply is being handled.
SentItems == SelectedItems(extractedItems, sendSelected)

\* The search reply being handled carries outcomes.
HasOutcomes ==
    /\ spc = "awaiting"
    /\ sendReply.kind = "ok"
    /\ sendReply.success
    /\ Len(sendReply.results) > 0

\* The item after correlation by QueryIdentifier alone: it takes the results
\* of the outcome that carries its identifier, if that outcome succeeded.
CorrelatedByIdentifier(item, results) ==
    LET hits == {j \in 1..Len(results) : results[j].query_identifier = ItemIdentifier(item)}
    IN  IF hits = {} THEN item
        ELSE LET j == CHOOSE h \in hits : TRUE
             IN  IF results[j].success
                 THEN [item EXCEPT !.searchResults = results[j].results]
                 ELSE item

DistinctIdentifiers(items) ==
    \A a, b \in 1..Len(items) :
        a # b => ItemIdentifier(items[a]) # ItemIdentifier(items[b])

-----------------------------------------------------------------------------
(* Properties *)

\* C1: whatever the order of the outcomes of a search, when the selected
\* items have pairwise distinct QueryIdentifiers, every selected item gets the
\* results of the outcome that carries its own QueryIdentifier and of no
\* other, and the items that are not selected stay as they are.
C1_CorrelationByIdentifier ==
    [][(HasOutcomes /\ DistinctIdentifiers(SentItems)) =>
          /\ Len(extractedItems') = Len(extractedItems)
          /\ \A k \in 1..Len(extractedItems) :
                 extractedItems'[k] =
                    IF extractedItems[k].id \in sendSelected
                    THEN CorrelatedByIdentifier(extractedItems[k], sendReply.results)
                    ELSE extractedItems[k]]_vars

\* C2: when two distinct selected items of a search resolve to the same
\* QueryIdentifier, the search fails with an error and no item takes results:
\* it never completes with the results of one outcome shared or overwritten.
C2_CollisionFailsBatch ==
    [][(HasOutcomes /\ ~DistinctIdentifiers(SentItems)) =>
          /\ apiFeedback'.type = "error"
          /\ extractedItems' = extractedItems]_vars

C6_OnlyIdentificationAborts == error \in {Null} \cup IdentificationErrors

\* C7: when identification yields an empty list, the run ends with no items
\* and no error.
C7_EmptyIdentificationNoError ==
    [][(rpc = "identify" /\ runReply.kind = "list" /\ runReply.items = <<>>) =>
          /\ rpc' = "idle"
          /\ error' = Null
          /\ extractedItems' = <<>>]_vars

\* C8: when the identify request fails or its response is not a list of
\* non-empty strings, the run ends with an error; it does not go on with an
\* empty or partial list of names.
C8_MalformedIdentificationFails ==
    [][(rpc = "identify" /\ runReply # NoReply /\ ~WellFormed(runReply)) =>
          /\ rpc' = "idle"
          /\ error' # Null]_vars

\* C9: the names a run works through contain no two names that are equal
\* after trimming whitespace and ignoring case.
C9_NamesDeduplicated ==
    \A a, b \in 1..Len(itemNames.items) :
        a # b => NormalizedName(itemNames.items[a]) # NormalizedName(itemNames.items[b])

RunStageOrder ==
    {<<"idle", "identify">>, <<"identify", "extract">>, <<"identify", "idle">>,
     <<"extract", "idle">>}

ResetSinceDispatch == spc = "awaiting" /\ ~isSending

\* C12: when the state was reset while a search was in flight, the reply of
\* the search is discarded: it changes neither the collection nor the
\* selection nor the feedback shown.
C12_ResetDiscardsInFlight ==
    [][(ResetSinceDispatch /\ sendReply # NoSearchReply) =>
          /\ extractedItems' = extractedItems
          /\ selectedItemIds' = selectedItemIds
          /\ apiFeedback' = apiFeedback]_vars

\* The feedback shown for a search of which no outcome failed.
AllFoundFeedback == [type |-> "success", message |-> "Found results"]

\* An outcome of the search reply being handled carries an error.
SomeOutcomeFailed ==
    HasOutcomes /\ \E j \in 1..Len(sendReply.results) : ~sendReply.results[j].success

\* C13: when an outcome of a search carries an error, the item of that
\* outcome takes no results from it and the feedback shown reports the
\* failure: it is not the feedback of a search that found results for all.
C13_PartialSearchFailureSurfaced ==
    [][SomeOutcomeFailed =>
          /\ \A k \in 1..Len(extractedItems) :
                 (\E j \in 1..Len(sendReply.results) :
                      /\ ~sendReply.results[j].success
                      /\ sendReply.results[j].query_identifier =
                             ItemIdentifier(extractedItems[k]))
                 => extractedItems'[k].searchResults = extractedItems[k].searchResults
          /\ apiFeedback' # AllFoundFeedback]_vars

\* Item collections and their queries, written out for every list of
\* persisted items, to apply Correlate to the same arguments in two states.
SampleItems(l) ==
    [k \in 1..Len(l) |->
        [id |-> ToStr(k), name |-> l[k].name, imageBase64 |-> "base64",
         imageUrl |-> l[k].url, searchResults |-> NoResults]]
SampleQueries(items) == [k \in 1..Len(items) |-> Query(items[k].imageUrl, items[k])]

\* What Correlate gives for every sample collection, all of it selected, and
\* every list of outcomes the search may answer with.
SampleCorrelations ==
    [l \in PersistedLists |->
        LET items == SampleItems(l)
            ids   == {items[k].id : k \in 1..Len(items)}
        IN  [r \in SearchOutcomes(SampleQueries(items)) |-> Correlate(items, ids, r)]]

SameItem(a, b) ==
    a.name = b.name /\ a.imageBase64 = b.imageBase64 /\ a.imageUrl = b.imageUrl

\* C15: an item that stays in the collection through a step (selection
\* toggle, search, correlation, project load, extraction of a further item)
\* keeps its id.
C15_IdNeverChanges ==
    [][\A k \in 1..Len(extractedItems) :
          (k <= Len(extractedItems') /\ SameItem(extractedItems[k], extractedItems'[k]))
          => extractedItems'[k].id = extractedItems[k].id]_vars

\* C15: an item has taken the results of a search and is selected again.
C15_Witness ==
    \E k \in 1..Len(extractedItems) :
        /\ extractedItems[k].searchResults # NoResults
        /\ extractedItems[k].id \in selectedItemIds

\* C16: the outcome that correlation looks up for a selected item carries
\* the identifier that was sent with the query of that item, and no other.
C16_LookupBySentIdentifier ==
    [][HasOutcomes =>
          \A k \in 1..Len(extractedItems), q \in 1..Len(sendQueries) :
              LET item == extractedItems[k]
                  m    == FindMatch(sendReply.results, item)
              IN  (item.id \in sendSelected /\ sendQueries[q].image = item.id /\ m # 0)
                  => sendReply.results[m].query_identifier = sendQueries[q].identifier]_vars

-----------------------------------------------------------------------------
(* The session: routes, logout and token renewal *)

\* The client holds an access token and its user is a designer or an admin.
MayUseExtractor == accessToken # Null /\ HasMainRole(user)

\* C17: route protection.  The ExtractorApp page is on screen only while the
\* client holds an access token and the current user has the role designer or
\* admin; in every other state the page on screen is the home, the login, the
\* registration or the loading page.
C17_RouteProtection ==
    /\ Shown = "extractor" => MayUseExtractor
    /\ ~MayUseExtractor => Shown \in {"home", "login", "register", "loading"}

\* Nothing of a session is left: no token in the service, no token and no
\* user data in localStorage, no user in the provider.
SessionClean ==
    /\ accessToken = Null
    /\ refreshToken = Null
    /\ localStorage = [access_token |-> Null, refresh_token |-> Null, user_data |-> Null]
    /\ user = Null

\* The step in which logout of the provider returns: after the server has
\* answered or the request has thrown, or at once when no token was held.
LogoutCompletes ==
    \/ op = "logout" /\ apc = "logout" /\ apc' = "idle"
    \/ apc = "idle" /\ apc' = "idle" /\ accessToken = Null /\ user' # user

\* C18: logout always cleans the session.  When logout completes, both tokens
\* and the cached user data are gone from memory and from localStorage and the
\* user is null, whether the server's logout request succeeded, failed or threw;
\* the provider is loading no more.
C18_LogoutCleansSession ==
    [][LogoutCompletes =>
          /\ SessionClean'
          /\ ~authLoading'
          /\ (apc = "logout" => lastLogout' \in Settlements)]_vars

\* A logout of the user has completed although its request threw.
C18_Witness ==
    /\ lastLogout = "rejected"
    /\ meResult = "user"
    /\ apc = "idle"
    /\ SessionClean

\* The service and localStorage hold the pair the server issued last.
NewPairStored ==
    /\ accessToken = Pair(issued)
    /\ refreshToken = Pair(issued)
    /\ localStorage.access_token = Pair(issued)
    /\ localStorage.refresh_token = Pair(issued)

\* C19: automatic token renewal.  When authenticatedFetch or getCurrentUser
\* has received a 401 and the refresh succeeds, the request is sent again
\* bearing the new access token, which differs from the one that was refused,
\* and the new pair is the one held and stored; a response the caller receives
\* is the response to the request sent last, never the 401 that was renewed.
C19_TokenRenewal ==
    [][/\ \A c \in Calls :
             /\ (calls[c].pc = "refresh" /\ calls'[c].pc = "fetch") =>
                   /\ issued' = issued + 1
                   /\ NewPairStored'
                   /\ calls'[c].bearer = accessToken'
                   /\ calls'[c].bearer # calls[c].bearer
                   /\ calls'[c].retried
             /\ (calls[c].pc = "fetch" /\ calls'[c].pc = "idle"
                    /\ calls'[c].outcome.kind = "response") =>
                   /\ calls'[c].outcome.bearer = calls[c].bearer
                   /\ calls'[c].outcome.detail # "401"
       /\ (apc = "refresh" /\ apc' = "me") =>
             /\ issued' = issued + 1
             /\ NewPairStored'
             /\ meBearer' = accessToken'
             /\ meBearer' # meBearer
       /\ (apc = "me" /\ meResult' = "user" /\ apc' = "idle") =>
             /\ user' \in Users
             /\ localStorage'.user_data = user']_vars

\* A call has received the 200 response to the request it sent again, which
\* bore the access token that is held now.
C19_Witness ==
    \E c \in Calls :
        /\ calls[c].pc = "idle"
        /\ calls[c].retried
        /\ calls[c].outcome = Response("200", accessToken)
        /\ NewPairStored

\* No token is held by the service or kept in localStorage.
TokensCleared ==
    /\ accessToken = Null
    /\ refreshToken = Null
    /\ localStorage.access_token = Null
    /\ localStorage.refresh_token = Null

\* The step in which a token refresh fails inside call c of authenticatedFetch,
\* and inside getCurrentUser.
RefreshFailsInCall(c) ==
    /\ calls[c].pc \in {"fetch", "refresh"}
    /\ calls'[c].pc = "idle"
    /\ calls'[c].outcome.kind = "error"
    /\ calls'[c].outcome.detail # "Failed to fetch"
RefreshFailsInGetCurrentUser ==
    /\ apc = "refresh" \/ (apc = "me" /\ refreshToken = Null)
    /\ apc' # apc
    /\ apc' # "me"
    /\ meResult' \notin {"user", "500", "rejected"}

\* When a token refresh fails, the tokens are cleared and the operation
\* rejects with the session-expired error.
RefreshFailureClears ==
    /\ \A c \in Calls :
          RefreshFailsInCall(c) =>
              TokensCleared' /\ calls'[c].outcome = Thrown(SessionExpired)
    /\ RefreshFailsInGetCurrentUser =>
          TokensCleared' /\ meResult' = SessionExpired

FailedRefreshClears == [][RefreshFailureClears]_vars

\* The latest result of some operation is the session-expired error.
SessionExpiredReported ==
    \/ meResult = SessionExpired
    \/ \E c \in Calls : calls[c].outcome = Thrown(SessionExpired)

\* C20: invalid tokens are cleared.  Whenever a token refresh fails, in
\* authenticatedFetch, in getCurrentUser or in the check of the page load, both
\* tokens are removed from memory and from localStorage and the operation
\* rejects with the session-expired error; from then on the client holds no
\* access token until a login succeeds.
C20_InvalidTokensCleared ==
    [][/\ RefreshFailureClears
       /\ (TokensCleared /\ SessionExpiredReported /\ accessToken' # Null) =>
             apc = "login"]_vars

\* C21: multi-tab login state.  When a logout completes in one tab, the other
\* open tab is logged out too: it holds no access token, its provider does not
\* report the user as authenticated, and a request it sends afterwards bears
\* no token that localStorage has lost.
C21_TabsShareLogout ==
    [][/\ (LogoutCompletes /\ tab2.pc # "closed") => tab2'.accessToken = Null
       /\ (tab2.pc = "logout" /\ tab2'.pc = "open") =>
             accessToken' = Null /\ ~isAuthenticated'
       /\ \A c \in Calls :
             (calls[c].pc = "idle" /\ calls'[c].pc = "fetch") =>
                 calls'[c].bearer = localStorage.access_token]_vars

-----------------------------------------------------------------------------
(* The extraction loop and the collection *)

\* The step that sends the extraction request of one loop iteration
ExtractionRequestSent == rpc' = "extract" /\ <<rpc, idx>> # <<rpc', idx'>>

ItemsKept ==
    \A k \in 1..Len(extractedItems) :
        \E j \in 1..Len(extractedItems') : extractedItems'[j].id = extractedItems[k].id

HoldsOwnResults(item) ==
    item.searchResults # NoResults =>
        \E j \in 1..Len(extractedItems) :
            /\ extractedItems[j].id = item.searchResults
            /\ ItemIdentifier(extractedItems[j]) = ItemIdentifier(item)

\* C24: after any sequence of searches, the searchResults an item holds are
\* results the search service returned for a query sent for that item, never
\* those of a query sent for an item with another identifier, also when two
\* selected items share a name.
C24_ResultsOfOwnQuery ==
    \A k \in 1..Len(extractedItems) : HoldsOwnResults(extractedItems[k])

-----------------------------------------------------------------------------
(* Termination *)

\* C25: every call of authenticatedFetch and of getCurrentUser completes in
\* the end, with a response or an error, whatever the server answers, also
\* when it answers 401 to every request and accepts every refresh.
C25_CallsComplete ==
    /\ \A c \in Calls : (calls[c].pc # "idle") ~> (calls[c].pc = "idle")
    /\ (apc \in {"me", "refresh"}) ~> (apc \notin {"me", "refresh"})

-----------------------------------------------------------------------------
(* Overlapping refreshes *)

\* While the refresh of call c was in flight, the refresh of another call has
\* succeeded: the refresh token held is no longer the one c has sent, and the
\* access token held is the one another call has sent its request again with.
RefreshOvertaken(c) ==
    /\ calls[c].pc = "refresh"
    /\ refreshToken # Null
    /\ refreshToken # calls[c].sent
    /\ \E d \in Calls \ {c} :
          /\ calls[d].retried
          /\ calls[d].bearer = accessToken \/ calls[d].outcome.bearer = accessToken

\* C26: when two token refreshes overlap, the one that fails does not clear
\* the tokens the other has just stored: the client stays authenticated with
\* the tokens of the refresh that succeeded.
C26_FailedRefreshKeepsNewTokens ==
    [][\A c \in Calls :
          (RefreshOvertaken(c) /\ calls'[c].pc = "idle") =>
              /\ accessToken' = accessToken
              /\ refreshToken' = refreshToken
              /\ localStorage' = localStorage]_vars

-----------------------------------------------------------------------------
(* Selection, ids and busy flags of ExtractorApp *)

C29_BusyFlagsReleased ==
    /\ (rpc # "idle") ~> (rpc = "idle" /\ ~isLoading /\ loadingMessage = NoMessage)
    /\ (spc # "idle") ~> (spc = "idle" /\ ~isSending)

\* A run has ended in the catch block and a search has ended with a failed
\* request; both flags are down.
C29_Witness ==
    /\ rpc = "idle" /\ spc = "idle"
    /\ ~isLoading /\ loadingMessage = NoMessage /\ ~isSending
    /\ error # Null
    /\ apiFeedback = [type |-> "error", message |-> "Failed to upload items"]

\* The step in which the continuation of a failed search request runs: the
\* request was rejected or answered with a non-OK status.
SearchRequestFails == spc = "awaiting" /\ spc' = "idle" /\ sendReply.kind # "ok"

\* The step in which handleSendToApi throws before the request is sent.
ConversionThrows ==
    /\ spc = "idle" /\ spc' = "idle"
    /\ apiFeedback' # apiFeedback /\ apiFeedback' # NoFeedback

SearchResultsKept ==
    /\ Len(extractedItems') = Len(extractedItems)
    /\ \A k \in 1..Len(extractedItems) :
          extractedItems'[k].searchResults = extractedItems[k].searchResults

\* C30: when the search fails as a whole (non-OK response or thrown error),
\* handleSendToApi leaves the searchResults of every item and the current
\* selection unchanged and sets an error feedback; handleSendToApi changes
\* the selection only after an OK response.
C30_FailedSearchKeepsState ==
    [][/\ (SearchRequestFails \/ ConversionThrows) =>
            /\ SearchResultsKept
            /\ selectedItemIds' = selectedItemIds
            /\ apiFeedback'.type = "error"
       /\ (spc = "awaiting" /\ spc' = "idle" /\ selectedItemIds' # selectedItemIds) =>
            sendReply.kind = "ok"]_vars

\* A search has failed after an earlier one had stored results: the
\* selection and the stored results are still there.
C30_Witness ==
    /\ spc = "idle"
    /\ apiFeedback = [type |-> "error", message |-> "Failed to upload items"]
    /\ selectedItemIds # {}
    /\ \E k \in 1..Len(extractedItems) :
          /\ extractedItems[k].searchResults # NoResults
          /\ extractedItems[k].id \in selectedItemIds

====
